---- MODULE Spec2Model ----
(***************************************************************************)
(* Queue state machine and ticket-ordering engine of the walk-in service   *)
(* queue manager (backend/controllers/queueController.js,                  *)
(* backend/controllers/counterController.js, models Queue and Counter,     *)
(* socket/queueEvents.js).                                                 *)
(*                                                                         *)
(* The store is the PostgreSQL database: tables queue_entries, counters,   *)
(* queue_logs, services, system_settings.  Every `await query(...)` of a   *)
(* handler is one atomic step (a read of the services table, which these   *)
(* handlers never write, is taken together with the statement next to it);  *)
(* handlers of concurrent HTTP requests                                     *)
(* interleave between their steps (Node.js yields at every await, and      *)
(* several server processes may share the store).  No handler opens a      *)
(* transaction, so every statement commits on its own.                     *)
(*                                                                         *)
(* Not modelled: authentication and the role checks of the counter         *)
(* handlers (every caller is taken to be counter staff), the 400 for a     *)
(* missing serviceId / status in the request body, read-only endpoints.    *)
(***************************************************************************)
EXTENDS Integers, Sequences, FiniteSets, TLC

\* ------------------------------------------------------------------ bounds
\* Handler invocations and maintenance switches in one behaviour of Spec.
MaxOps == 3
\* Handler invocations and environment events (maintenance switch, midnight)
\* in one behaviour of SpecSeq.
MaxSeqOps == 5
\* Handler invocations in one behaviour of SpecFault.
MaxFaultOps == 3
\* Handler invocations in one behaviour of SpecOrder.
MaxOrderOps == 7
\* Handler invocations and midnights in one behaviour of SpecService.
MaxServiceOps == 3
\* Tickets waiting at one time in a behaviour of SpecLine.
MaxLine == 4
\* Store failures (timeout, lost connection) injected in one behaviour.
MaxFaults == 1

\* Concurrent HTTP handlers (request slots).
Procs == {1, 2}
Users == {1, 2}
\* counters 1 and 2 exist (both of service 1); 3 resolves to no row
CounterIds == {1, 2}
CounterArgs == {1, 2, 3}
\* services 1 and 3..6 are active, service 2 is inactive, 7 resolves to no
\* row; the counters belong to service 1, and requests for services 3..6
\* are made in SpecService only
ServiceIds == 1..6
ServiceArgs == {1, 2, 7}

NULL == 0

\* ------------------------------------------------------------ static data
\* Strings are sequences of one-character strings.
\* The services table (owned by the admin collaborator, read-only here):
\* name, queue_prefix (nullable), is_active, estimated_service_time.
NullString == [isNull |-> TRUE, str |-> <<>>]
Str(chars) == [isNull |-> FALSE, str |-> chars]

services ==
  [s \in ServiceIds |->
     CASE s = 1 ->
            [name |-> <<"R", "e", "g", "i", "s", "t", "r", "a", "r">>,
             queue_prefix |-> Str(<<>>), is_active |-> TRUE,
             estimated_service_time |-> 5]
       [] s = 2 ->
            [name |-> <<"C", "l", "i", "n", "i", "c">>,
             queue_prefix |-> Str(<<"c", "l", "i">>), is_active |-> FALSE,
             estimated_service_time |-> 0]
       [] s = 3 ->
            [name |-> <<"X", "-", "R", "a", "y">>,
             queue_prefix |-> NullString, is_active |-> TRUE,
             estimated_service_time |-> 3]
       [] s = 4 ->
            [name |-> <<"L", "a", "b">>,
             queue_prefix |-> Str(<<" ", "r", "x", " ">>), is_active |-> TRUE,
             estimated_service_time |-> 0]
       [] s = 5 ->
            [name |-> <<"I", "T">>,
             queue_prefix |-> Str(<<" ", " ">>), is_active |-> TRUE,
             estimated_service_time |-> 2]
       [] OTHER ->
            [name |-> <<"C", "a", "s", "h", "i", "e", "r">>,
             queue_prefix |-> Str(<<"a", "-", "1">>), is_active |-> TRUE,
             estimated_service_time |-> 1]]

\* The counters' service (counters.service_id never changes in these handlers).
counterService == [c \in CounterIds |-> 1]

VARIABLES
  queue_entries,   \* table queue_entries: sequence of rows, id = index
  counters,        \* table counters: id -> [status, current_serving_queue_id]
  queue_logs,      \* table queue_logs: append-only sequence of rows
  maintenance,     \* table system_settings: system_maintenance_mode of its
                   \* rows (no row, or the row with id 1)
  published,       \* set of events handed to Socket.IO rooms
  now,             \* store clock (NOW()); ticks at every INSERT of a ticket
  midnights,       \* clock values at which a calendar day began
  pc,              \* per request slot: position in the handler
  args,            \* per request slot: operation and its arguments
  local,           \* per request slot: values the handler has read so far
  result,          \* per request slot: the response sent
  nops,            \* handler invocations so far
  faults           \* store failures injected so far

vars == <<queue_entries, counters, queue_logs, maintenance, published, now,
          midnights, pc, args, local, result, nops, faults>>

\* ---------------------------------------------------------------- queries
QueueIds == 1..Len(queue_entries)

\* DATE(ts): the calendar day a timestamp falls on.
DateOf(ts) == Cardinality({m \in midnights : m <= ts})

\* const v = e: Only({body : v \in {e}}) is body with v naming the value of
\* e, computed once.
Only(S) == CHOOSE x \in S : TRUE

\* COALESCE(queue_prefix, ''): a NULL column reads as the empty string.
Coalesce(column) == IF column.isNull THEN <<>> ELSE column.str

\* String.prototype.trim: white space is stripped from both ends.
RECURSIVE TrimStart(_)
TrimStart(str) ==
  IF str # <<>> /\ Head(str) = " " THEN TrimStart(Tail(str)) ELSE str

RECURSIVE TrimEnd(_)
TrimEnd(str) ==
  IF str # <<>> /\ str[Len(str)] = " "
  THEN TrimEnd(SubSeq(str, 1, Len(str) - 1))
  ELSE str

\* Mutant of Trim: only leading white space is removed.
Trim_LeadingOnly(str) == TrimStart(str)

Trim(str) == TrimEnd(TrimStart(str))

\* String.prototype.toUpperCase, letter by letter.
LowerCaseLetters ==
  <<"a", "b", "c", "d", "e", "f", "g", "h", "i", "j", "k", "l", "m",
    "n", "o", "p", "q", "r", "s", "t", "u", "v", "w", "x", "y", "z">>

UpperCaseLetters ==
  <<"A", "B", "C", "D", "E", "F", "G", "H", "I", "J", "K", "L", "M",
    "N", "O", "P", "Q", "R", "S", "T", "U", "V", "W", "X", "Y", "Z">>

ToUpperCase(str) ==
  [i \in 1..Len(str) |->
     IF \E k \in 1..Len(LowerCaseLetters) : LowerCaseLetters[k] = str[i]
     THEN UpperCaseLetters[CHOOSE k \in 1..Len(LowerCaseLetters) :
                             LowerCaseLetters[k] = str[i]]
     ELSE str[i]]

\* serviceName.substring(0, 3): the first three characters, or all of a
\* shorter name.
Substring3(str) == SubSeq(str, 1, IF Len(str) < 3 THEN Len(str) ELSE 3)

\* Queue.generateQueueNumber, prefix: the configured queue_prefix (trimmed,
\* upper-cased) when it is non-blank, else the first 3 characters of the
\* name, upper-cased.
QueuePrefix(serviceId) ==
  IF Trim(Coalesce(services[serviceId].queue_prefix)) # <<>>
  THEN ToUpperCase(Trim(Coalesce(services[serviceId].queue_prefix)))
  ELSE ToUpperCase(Substring3(services[serviceId].name))

\* NaN: what parseInt gives for text that does not start with a number;
\* NaN + 1 is NaN and String(NaN) is "NaN".
NaN == -1

DigitChars == <<"0", "1", "2", "3", "4", "5", "6", "7", "8", "9">>

\* String(n) for a number n >= 0 or NaN.
RECURSIVE StringOf(_)
StringOf(n) ==
  IF n = NaN THEN <<"N", "a", "N">>
  ELSE IF n < 10 THEN <<DigitChars[n + 1]>>
  ELSE StringOf(n \div 10) \o <<DigitChars[(n % 10) + 1]>>

\* String.prototype.padStart(3, '0').
RECURSIVE PadStart3(_)
PadStart3(str) == IF Len(str) >= 3 THEN str ELSE PadStart3(<<"0">> \o str)

\* `${prefix}-${String(nextNumber).padStart(3, '0')}`
FormatQueueNumber(prefix, n) == prefix \o <<"-">> \o PadStart3(StringOf(n))

\* String.prototype.split('-'): the fields between the dashes.
RECURSIVE Split(_)
Split(str) ==
  IF \A i \in 1..Len(str) : str[i] # "-" THEN <<str>>
  ELSE LET d == CHOOSE i \in 1..Len(str) :
                  str[i] = "-" /\ \A j \in 1..(i - 1) : str[j] # "-"
       IN  <<SubSeq(str, 1, d - 1)>> \o Split(SubSeq(str, d + 1, Len(str)))

\* parseInt: the number the leading digits spell (leading white space
\* skipped), NaN when there is no leading digit.
IsDigit(ch) == \E k \in 1..10 : DigitChars[k] = ch
DigitValue(ch) == (CHOOSE k \in 1..10 : DigitChars[k] = ch) - 1

RECURSIVE ParseDigits(_, _)
ParseDigits(str, acc) ==
  IF str # <<>> /\ IsDigit(Head(str))
  THEN ParseDigits(Tail(str), 10 * acc + DigitValue(Head(str)))
  ELSE acc

ParseInt(str) ==
  Only({IF s # <<>> /\ IsDigit(Head(s)) THEN ParseDigits(s, 0) ELSE NaN :
          s \in {TrimStart(str)}})

\* parseInt(lastNumber.split('-')[1])
NumberPart(queueNumber) ==
  Only({ParseInt(fields[2]) : fields \in {Split(queueNumber)}})

\* queue_number LIKE `${prefix}-%`
Like(queueNumber, prefix) ==
  /\ Len(queueNumber) >= Len(prefix) + 1
  /\ SubSeq(queueNumber, 1, Len(prefix) + 1) = prefix \o <<"-">>

\* Queue.generateQueueNumber, last number query: the rows of the service
\* requested today whose number has the prefix, ORDER BY id DESC LIMIT 1.
LastNumberRows(serviceId, prefix) ==
  {q \in QueueIds : /\ queue_entries[q].service_id = serviceId
                    /\ DateOf(queue_entries[q].requested_at) = DateOf(now)
                    /\ Like(queue_entries[q].queue_number, prefix)}

MaxOf(S) == CHOOSE x \in S : \A y \in S : y <= x

generateQueueNumber(serviceId) ==
  Only({Only({IF rows = {}
              THEN FormatQueueNumber(prefix, 1)
              ELSE Only({FormatQueueNumber(prefix, IF numberPart = NaN THEN NaN
                                                   ELSE numberPart + 1) :
                           numberPart \in
                             {NumberPart(queue_entries[MaxOf(rows)].queue_number)}}) :
                rows \in {LastNumberRows(serviceId, prefix)}}) :
          prefix \in {QueuePrefix(serviceId)}})

\* Mutant of calculateQueuePosition: tickets of every status are counted.
calculateQueuePosition_AnyStatus(serviceId) ==
  Cardinality({q \in QueueIds : /\ queue_entries[q].service_id = serviceId
                                /\ queue_entries[q].requested_at < now}) + 1

\* Queue.calculateQueuePosition: COUNT of the service's waiting rows
\* requested before NOW(), plus 1.
calculateQueuePosition(serviceId) ==
  Cardinality({q \in QueueIds : /\ queue_entries[q].service_id = serviceId
                                /\ queue_entries[q].status = "waiting"
                                /\ queue_entries[q].requested_at < now}) + 1

\* Queue.findByUserAndService: a row of the user and service in waiting,
\* called or serving status (NULL when there is none).
ActiveStatuses == {"waiting", "called", "serving"}

ActiveRows(userId, serviceId) ==
  {q \in QueueIds : /\ queue_entries[q].user_id = userId
                    /\ queue_entries[q].service_id = serviceId
                    /\ queue_entries[q].status \in ActiveStatuses}

\* Mutant of findByUserAndService: the status filter names 'waiting' only.
findByUserAndService_WaitingOnly(userId, serviceId) ==
  LET rows == {q \in ActiveRows(userId, serviceId) :
                 queue_entries[q].status = "waiting"}
  IN  IF rows = {} THEN NULL ELSE CHOOSE q \in rows : \A r \in rows : q <= r

findByUserAndService(userId, serviceId) ==
  IF ActiveRows(userId, serviceId) = {} THEN NULL
  ELSE CHOOSE q \in ActiveRows(userId, serviceId) :
         \A r \in ActiveRows(userId, serviceId) : q <= r

\* Counter.getNextWaitingQueue: the service's waiting row that is first in
\* ORDER BY queue_position ASC, requested_at ASC (NULL when none waits).
WaitingRows(serviceId) ==
  {q \in QueueIds : /\ queue_entries[q].service_id = serviceId
                    /\ queue_entries[q].status = "waiting"}

OrderedBefore(a, b) ==
  \/ queue_entries[a].queue_position < queue_entries[b].queue_position
  \/ /\ queue_entries[a].queue_position = queue_entries[b].queue_position
     /\ queue_entries[a].requested_at <= queue_entries[b].requested_at

\* Mutant of getNextWaitingQueue: ORDER BY id instead of queue_position.
getNextWaitingQueue_LowestId(serviceId) ==
  IF WaitingRows(serviceId) = {} THEN NULL
  ELSE CHOOSE q \in WaitingRows(serviceId) :
         \A r \in WaitingRows(serviceId) : q <= r

getNextWaitingQueue(serviceId) ==
  IF WaitingRows(serviceId) = {} THEN NULL
  ELSE CHOOSE q \in WaitingRows(serviceId) :
         \A r \in WaitingRows(serviceId) : OrderedBefore(q, r)

\* Queue.logQueueAction: the row appended to queue_logs.
LogRow(queueEntryId, serviceId, counterId, action) ==
  [queue_entry_id |-> queueEntryId, service_id |-> serviceId,
   counter_id |-> counterId, action |-> action]

\* socketServer.emitQueueUpdate / emitQueueCalled / emitCounterUpdate: the
\* (room, event) pairs an emit reaches.
NoStatus == "undefined"

Event(topic, id, event, type, status, queueId) ==
  [topic |-> topic, id |-> id, event |-> event, type |-> type,
   status |-> status, queue |-> queueId]

emitQueueUpdate(serviceId, type, queueId) ==
  {Event("service", serviceId, "queue_update", type, NoStatus, queueId)}

emitUserNotification(userId, type, queueId) ==
  {Event("user", userId, "queue_called", type, NoStatus, queueId)}

\* data.status is 'busy' in emitQueueCalled, 'open' in emitQueueCompleted
\* and absent in emitQueueServingStarted.
emitCounterUpdate(counterId, serviceId, type, status, queueId) ==
  {Event("counter", counterId, "counter_update", type, status, queueId),
   Event("service", serviceId, "counter_update", type, status, queueId)}


\* ------------------------------------------------------------------- Init
NoArgs == [op |-> "none", userId |-> NULL, serviceId |-> NULL,
           counterId |-> NULL, queueId |-> NULL, status |-> ""]

NoLocal == [nextQueue |-> NULL, queueNumber |-> <<>>, queuePosition |-> 0,
            estimatedServiceTime |-> 0, queue |-> NULL, rowCounterId |-> NULL,
            writes |-> 0]

\* kind: the response; queueId: the ticket it names; writes: the store
\* writes the handler had applied when it responded.
NoResult == [kind |-> "none", queueId |-> NULL, writes |-> 0]

\* The store after setup: no ticket yet, both counters opened by their
\* staff, no settings row saved yet, no request in flight.
Init ==
  /\ queue_entries = <<>>
  /\ counters = [c \in CounterIds |->
                   [status |-> "open", current_serving_queue_id |-> NULL]]
  /\ queue_logs = <<>>
  /\ maintenance = <<>>
  /\ published = {}
  /\ now = 1
  /\ midnights = {}
  /\ pc = [p \in Procs |-> "idle"]
  /\ args = [p \in Procs |-> NoArgs]
  /\ local = [p \in Procs |-> NoLocal]
  /\ result = [p \in Procs |-> NoResult]
  /\ nops = 0
  /\ faults = 0

\* ------------------------------------------------------- handler plumbing
Free(p) == pc[p] \in {"idle", "done"}

\* A new HTTP request is taken by the lowest free slot.
Begin(p, bound, a, label) ==
  /\ Free(p)
  /\ \A q \in Procs : q < p => ~Free(q)
  /\ nops < bound
  /\ nops' = nops + 1
  /\ args' = [args EXCEPT ![p] = a]
  /\ local' = [local EXCEPT ![p] = NoLocal]
  /\ result' = [result EXCEPT ![p] = NoResult]
  /\ pc' = [pc EXCEPT ![p] = label]
  /\ UNCHANGED <<queue_entries, counters, queue_logs, maintenance, published,
                 now, midnights, faults>>

Goto(p, label) == pc' = [pc EXCEPT ![p] = label]

\* A step that only reads and goes on.
Continue(p, label) == Goto(p, label) /\ UNCHANGED <<result, local>>

\* res.status(...).json(...): the handler ends with this response.
Respond(p, kind, queueId) ==
  /\ pc' = [pc EXCEPT ![p] = "done"]
  /\ result' = [result EXCEPT ![p] = [kind |-> kind, queueId |-> queueId,
                                      writes |-> local[p].writes]]
  /\ local' = [local EXCEPT ![p] = NoLocal]

Wrote(p) == [local[p] EXCEPT !.writes = @ + 1]

tables == <<queue_entries, counters, queue_logs, maintenance, now, midnights>>
session == <<args, nops, faults>>

\* --------------------------------------------------- requestQueue handler
StartRequest(p, bound, userId, serviceId) ==
  Begin(p, bound, [NoArgs EXCEPT !.op = "requestQueue", !.userId = userId,
                                 !.serviceId = serviceId], "rq_settings")

\* getSystemSettings: the maintenance flag of the settings row, or the
\* default (off) when the table has no row.
getSystemSettings ==
  IF Len(maintenance) > 0 THEN maintenance[1] ELSE FALSE

\* getSystemSettings and the maintenance check, then Service.findById and
\* the active check (the services table is never written by these handlers,
\* so its reads are taken together with the statement before them).
\* Mutant of ServiceResolves: the is_active flag is not consulted.
ServiceResolves_AnyRow(serviceId) == serviceId \in ServiceIds

ServiceResolves(serviceId) ==
  serviceId \in ServiceIds /\ services[serviceId].is_active

\* Mutant of RqAdmission: the maintenance flag is not consulted.
RqAdmission_NoMaintenance(p, maintenanceMode) ==
  IF ~ServiceResolves(args[p].serviceId)
  THEN Respond(p, "ServiceNotFound", NULL)
  ELSE Continue(p, "rq_existing")

RqAdmission(p, maintenanceMode) ==
  IF maintenanceMode
  THEN Respond(p, "SystemUnavailable", NULL)
  ELSE IF ~ServiceResolves(args[p].serviceId)
       THEN Respond(p, "ServiceNotFound", NULL)
       ELSE Continue(p, "rq_existing")

RqSettings(p) ==
  /\ pc[p] = "rq_settings"
  /\ RqAdmission(p, getSystemSettings)
  /\ UNCHANGED <<tables, published, session>>

\* Mutant of RqSettingsFault: the failing settings query reaches the
\* handler's catch block.
RqSettingsFault_Propagates(p) ==
  /\ pc[p] = "rq_settings"
  /\ faults < MaxFaults
  /\ faults' = faults + 1
  /\ Respond(p, "InternalError", NULL)
  /\ UNCHANGED <<tables, published, args, nops>>

\* getSystemSettings catches a failing settings query and returns the
\* defaults (maintenance off).
RqSettingsFault(p) ==
  /\ pc[p] = "rq_settings"
  /\ faults < MaxFaults
  /\ faults' = faults + 1
  /\ RqAdmission(p, FALSE)
  /\ UNCHANGED <<tables, published, args, nops>>

\* Queue.findByUserAndService and the duplicate check; on success
\* Queue.create begins with the service query of generateQueueNumber.
RqExisting(p) ==
  /\ pc[p] = "rq_existing"
  /\ LET existingQueue == findByUserAndService(args[p].userId, args[p].serviceId)
     IN  IF existingQueue # NULL
         THEN Respond(p, "DuplicateActiveTicket", existingQueue)
         ELSE Continue(p, "gen_last")
  /\ UNCHANGED <<tables, published, session>>

\* Queue.generateQueueNumber called on its own (as the model's tests do).
StartGenerate(p, bound, serviceId) ==
  Begin(p, bound, [NoArgs EXCEPT !.op = "generateQueueNumber",
                                 !.serviceId = serviceId], "gen_last")

\* What the caller of a throwing model method sees: requestQueue catches
\* the error and answers 500; a direct caller gets the error itself.
Caught(p, message) ==
  IF args[p].op = "requestQueue" THEN "InternalError" ELSE message

\* Queue.generateQueueNumber: throws 'Service not found' when the service
\* query returns no row; else the last number query and the number it
\* returns (kept in queueNumber; Queue.create goes on with the position).
GenLast(p) ==
  /\ pc[p] = "gen_last"
  /\ IF args[p].serviceId \notin ServiceIds
     THEN Respond(p, Caught(p, "Service not found"), NULL)
     ELSE /\ local' = [local EXCEPT
                         ![p].queueNumber = generateQueueNumber(args[p].serviceId)]
          /\ IF args[p].op = "generateQueueNumber"
             THEN /\ Goto(p, "done")
                  /\ result' = [result EXCEPT ![p].kind = "Success"]
             ELSE /\ Goto(p, "calc_pos")
                  /\ UNCHANGED result
  /\ UNCHANGED <<tables, published, session>>

\* Queue.create: estimated_service_time || 5.
EstimatedServiceTime(serviceId) ==
  IF services[serviceId].estimated_service_time = 0 THEN 5
  ELSE services[serviceId].estimated_service_time

\* Queue.calculateQueuePosition, then the estimated_service_time query.
CalcPos(p) ==
  /\ pc[p] = "calc_pos"
  /\ local' = [local EXCEPT
       ![p].queuePosition = calculateQueuePosition(args[p].serviceId),
       ![p].estimatedServiceTime = EstimatedServiceTime(args[p].serviceId)]
  /\ Goto(p, "insert")
  /\ UNCHANGED <<tables, published, session, result>>

\* Queue.create: the row the INSERT stores.
NewQueueEntry(userId, serviceId, queueNumber, queuePosition, estimatedServiceTime) ==
  [user_id |-> userId, service_id |-> serviceId, queue_number |-> queueNumber,
   queue_position |-> queuePosition, status |-> "waiting",
   estimated_wait_time |-> estimatedServiceTime * queuePosition,
   counter_id |-> NULL, requested_at |-> now, called_at |-> NULL,
   started_serving_at |-> NULL, completed_at |-> NULL, cancelled_at |-> NULL]

Insert(p) ==
  /\ pc[p] = "insert"
  /\ queue_entries' = Append(queue_entries,
        NewQueueEntry(args[p].userId, args[p].serviceId, local[p].queueNumber,
                      local[p].queuePosition, local[p].estimatedServiceTime))
  /\ now' = now + 1
  /\ local' = [local EXCEPT ![p] = [Wrote(p) EXCEPT !.queue = Len(queue_entries) + 1]]
  /\ Goto(p, "log_created")
  /\ UNCHANGED <<counters, queue_logs, maintenance, midnights, published,
                 session, result>>

LogCreated(p) ==
  /\ pc[p] = "log_created"
  /\ queue_logs' = Append(queue_logs,
        LogRow(local[p].queue, args[p].serviceId, NULL, "created"))
  /\ local' = [local EXCEPT ![p] = Wrote(p)]
  /\ Goto(p, "emit_created")
  /\ UNCHANGED <<queue_entries, counters, maintenance, now, midnights,
                 published, session, result>>

\* QueueEvents.emitQueueCreated, then the 201 response.
EmitCreated(p) ==
  /\ pc[p] = "emit_created"
  /\ published' = published
        \cup emitQueueUpdate(args[p].serviceId, "queue_created", local[p].queue)
        \cup emitUserNotification(args[p].userId, "queue_created", local[p].queue)
  /\ Respond(p, "Success", local[p].queue)
  /\ UNCHANGED <<tables, session>>


\* ------------------------------------------------------- callNext handler
StartCallNext(p, bound, counterId) ==
  Begin(p, bound, [NoArgs EXCEPT !.op = "callNext", !.counterId = counterId],
        "cn_counter")

\* Mutant of CnCounter: callNext refuses to run in maintenance mode.
CnCounter_Maintenance(p) ==
  /\ pc[p] = "cn_counter"
  /\ IF getSystemSettings
     THEN Respond(p, "SystemUnavailable", NULL)
     ELSE IF args[p].counterId \notin CounterIds
          THEN Respond(p, "CounterNotFound", NULL)
          ELSE IF counters[args[p].counterId].status = "closed"
               THEN Respond(p, "CounterClosed", NULL)
               ELSE Continue(p, "cn_next")
  /\ UNCHANGED <<tables, published, session>>

\* Mutant of CnCounter: the status of the counter is not looked at.
CnCounter_NoClosedCheck(p) ==
  /\ pc[p] = "cn_counter"
  /\ IF args[p].counterId \notin CounterIds
     THEN Respond(p, "CounterNotFound", NULL)
     ELSE Continue(p, "cn_next")
  /\ UNCHANGED <<tables, published, session>>

\* Counter.findById and the closed check.
CnCounter(p) ==
  /\ pc[p] = "cn_counter"
  /\ IF args[p].counterId \notin CounterIds
     THEN Respond(p, "CounterNotFound", NULL)
     ELSE IF counters[args[p].counterId].status = "closed"
          THEN Respond(p, "CounterClosed", NULL)
          ELSE Continue(p, "cn_next")
  /\ UNCHANGED <<tables, published, session>>

\* Mutant of CnNext: the call is published as soon as the next ticket is
\* found, before the UPDATE.
CnNext_EmitsFirst(p) ==
  /\ pc[p] = "cn_next"
  /\ LET nextQueue == getNextWaitingQueue(counterService[args[p].counterId])
     IN  IF nextQueue = NULL
         THEN /\ Respond(p, "NoWaitingQueues", NULL)
              /\ UNCHANGED published
         ELSE /\ local' = [local EXCEPT ![p].nextQueue = nextQueue]
              /\ published' = published \cup
                   emitQueueUpdate(counterService[args[p].counterId],
                                   "queue_called", nextQueue)
              /\ Goto(p, "cn_update")
              /\ UNCHANGED result
  /\ UNCHANGED <<tables, session>>

\* Counter.getNextWaitingQueue(counter.service_id).
CnNext(p) ==
  /\ pc[p] = "cn_next"
  /\ LET nextQueue == getNextWaitingQueue(counterService[args[p].counterId])
     IN  IF nextQueue = NULL
         THEN Respond(p, "NoWaitingQueues", NULL)
         ELSE /\ local' = [local EXCEPT ![p].nextQueue = nextQueue]
              /\ Goto(p, "cn_update")
              /\ UNCHANGED result
  /\ UNCHANGED <<tables, published, session>>

\* UPDATE queue_entries SET status = 'called', counter_id, called_at = NOW()
\* WHERE id = nextQueue.id.
\* Mutant of CalledRow: the called ticket's position is reset.
CalledRow_ResetsPosition(row, counterId) ==
  [row EXCEPT !.status = "called", !.counter_id = counterId, !.called_at = now,
              !.queue_position = 0]

CalledRow(row, counterId) ==
  [row EXCEPT !.status = "called", !.counter_id = counterId, !.called_at = now]

CnUpdate(p) ==
  /\ pc[p] = "cn_update"
  /\ queue_entries' = [queue_entries EXCEPT ![local[p].nextQueue] =
                         CalledRow(@, args[p].counterId)]
  /\ local' = [local EXCEPT ![p] = [Wrote(p) EXCEPT !.queue = local[p].nextQueue]]
  /\ Goto(p, "cn_setcur")
  /\ UNCHANGED <<counters, queue_logs, maintenance, now, midnights, published,
                 session, result>>

\* Mutant of setCurrentServing: a NULL ticket id leaves the column as it is.
setCurrentServing_NeverCleared(counterId, queueEntryId) ==
  IF queueEntryId = NULL THEN counters
  ELSE [counters EXCEPT ![counterId].current_serving_queue_id = queueEntryId]

\* Counter.setCurrentServing: UPDATE counters SET current_serving_queue_id.
setCurrentServing(counterId, queueEntryId) ==
  [counters EXCEPT ![counterId].current_serving_queue_id = queueEntryId]

\* Counter.updateStatus: UPDATE counters SET status (no row when the id
\* does not resolve).
\* Mutant of AllowedStatuses: 'paused' is accepted as well.
AllowedStatuses_WithPaused == {"open", "busy", "closed", "break", "paused"}

AllowedStatuses == {"open", "busy", "closed", "break"}

updateStatus(counterId, status) ==
  IF counterId \in CounterIds
  THEN [counters EXCEPT ![counterId].status = status]
  ELSE counters

CnSetCurrent(p) ==
  /\ pc[p] = "cn_setcur"
  /\ counters' = setCurrentServing(args[p].counterId, local[p].queue)
  /\ local' = [local EXCEPT ![p] = Wrote(p)]
  /\ Goto(p, "cn_status")
  /\ UNCHANGED <<queue_entries, queue_logs, maintenance, now, midnights,
                 published, session, result>>

CnStatus(p) ==
  /\ pc[p] = "cn_status"
  /\ counters' = updateStatus(args[p].counterId, "busy")
  /\ local' = [local EXCEPT ![p] = Wrote(p)]
  /\ Goto(p, "cn_log")
  /\ UNCHANGED <<queue_entries, queue_logs, maintenance, now, midnights,
                 published, session, result>>

CnLog(p) ==
  /\ pc[p] = "cn_log"
  /\ queue_logs' = Append(queue_logs,
        LogRow(local[p].queue, counterService[args[p].counterId],
               args[p].counterId, "called"))
  /\ local' = [local EXCEPT ![p] = Wrote(p)]
  /\ Goto(p, "cn_emit")
  /\ UNCHANGED <<queue_entries, counters, maintenance, now, midnights,
                 published, session, result>>

\* QueueEvents.emitQueueCalled, then the 200 response.
CnEmit(p) ==
  /\ pc[p] = "cn_emit"
  /\ LET q == local[p].queue
         serviceId == queue_entries[q].service_id
     IN  published' = published
           \cup emitQueueUpdate(serviceId, "queue_called", q)
           \cup emitCounterUpdate(args[p].counterId, serviceId, "queue_called", "busy", q)
           \cup emitUserNotification(queue_entries[q].user_id, "queue_called", q)
  /\ Respond(p, "Success", local[p].queue)
  /\ UNCHANGED <<tables, session>>

\* --------------------------------------------------- startServing handler
StartStartServing(p, bound, counterId, queueId) ==
  Begin(p, bound, [NoArgs EXCEPT !.op = "startServing", !.counterId = counterId,
                                 !.queueId = queueId], "ss_queue")

\* Mutant of FindCounterAndQueue: the check that the ticket is assigned to
\* the counter is left out.
FindCounterAndQueue_NoCounterCheck(p, here, next) ==
  /\ pc[p] = here
  /\ IF args[p].counterId \notin CounterIds
     THEN Respond(p, "CounterNotFound", NULL)
     ELSE IF args[p].queueId \notin QueueIds
          THEN Respond(p, "QueueNotFound", NULL)
          ELSE Continue(p, next)
  /\ UNCHANGED <<tables, published, session>>

\* Counter.findById, then Queue.findById and the check that the ticket is
\* assigned to the counter (startServing and completeService).
FindCounterAndQueue(p, here, next) ==
  /\ pc[p] = here
  /\ IF args[p].counterId \notin CounterIds
     THEN Respond(p, "CounterNotFound", NULL)
     ELSE IF args[p].queueId \notin QueueIds
          THEN Respond(p, "QueueNotFound", NULL)
          ELSE IF queue_entries[args[p].queueId].counter_id # args[p].counterId
               THEN Respond(p, "CounterMismatch", NULL)
               ELSE Continue(p, next)
  /\ UNCHANGED <<tables, published, session>>

SsQueue(p) == FindCounterAndQueue(p, "ss_queue", "ss_update")

\* UPDATE queue_entries SET status = 'serving', started_serving_at = NOW()
\* WHERE id = queueId.
ServingRow(row) == [row EXCEPT !.status = "serving", !.started_serving_at = now]

SsUpdate(p) ==
  /\ pc[p] = "ss_update"
  /\ queue_entries' = [queue_entries EXCEPT ![args[p].queueId] = ServingRow(@)]
  /\ local' = [local EXCEPT ![p] = [Wrote(p) EXCEPT !.queue = args[p].queueId]]
  /\ Goto(p, "ss_log")
  /\ UNCHANGED <<counters, queue_logs, maintenance, now, midnights, published,
                 session, result>>

SsLog(p) ==
  /\ pc[p] = "ss_log"
  /\ queue_logs' = Append(queue_logs,
        LogRow(args[p].queueId, counterService[args[p].counterId],
               args[p].counterId, "started"))
  /\ local' = [local EXCEPT ![p] = Wrote(p)]
  /\ Goto(p, "ss_emit")
  /\ UNCHANGED <<queue_entries, counters, maintenance, now, midnights,
                 published, session, result>>

\* QueueEvents.emitQueueServingStarted, then the 200 response.
SsEmit(p) ==
  /\ pc[p] = "ss_emit"
  /\ LET q == local[p].queue
         serviceId == queue_entries[q].service_id
     IN  published' = published
           \cup emitQueueUpdate(serviceId, "queue_serving", q)
           \cup emitCounterUpdate(args[p].counterId, serviceId, "serving_started", NoStatus, q)
  /\ Respond(p, "Success", local[p].queue)
  /\ UNCHANGED <<tables, session>>

\* ------------------------------------------------ completeService handler
StartCompleteService(p, bound, counterId, queueId) ==
  Begin(p, bound, [NoArgs EXCEPT !.op = "completeService",
                                 !.counterId = counterId, !.queueId = queueId],
        "cs_queue")

CsQueue(p) == FindCounterAndQueue(p, "cs_queue", "cs_update")

\* UPDATE queue_entries SET status = 'completed', completed_at = NOW()
\* WHERE id = queueId.
CompletedRow(row) == [row EXCEPT !.status = "completed", !.completed_at = now]

CsUpdate(p) ==
  /\ pc[p] = "cs_update"
  /\ queue_entries' = [queue_entries EXCEPT ![args[p].queueId] = CompletedRow(@)]
  /\ local' = [local EXCEPT ![p] = [Wrote(p) EXCEPT !.queue = args[p].queueId]]
  /\ Goto(p, "cs_setcur")
  /\ UNCHANGED <<counters, queue_logs, maintenance, now, midnights, published,
                 session, result>>

CsSetCurrent(p) ==
  /\ pc[p] = "cs_setcur"
  /\ counters' = setCurrentServing(args[p].counterId, NULL)
  /\ local' = [local EXCEPT ![p] = Wrote(p)]
  /\ Goto(p, "cs_status")
  /\ UNCHANGED <<queue_entries, queue_logs, maintenance, now, midnights,
                 published, session, result>>

CsStatus(p) ==
  /\ pc[p] = "cs_status"
  /\ counters' = updateStatus(args[p].counterId, "open")
  /\ local' = [local EXCEPT ![p] = Wrote(p)]
  /\ Goto(p, "cs_log")
  /\ UNCHANGED <<queue_entries, queue_logs, maintenance, now, midnights,
                 published, session, result>>

CsLog(p) ==
  /\ pc[p] = "cs_log"
  /\ queue_logs' = Append(queue_logs,
        LogRow(args[p].queueId, counterService[args[p].counterId],
               args[p].counterId, "completed"))
  /\ local' = [local EXCEPT ![p] = Wrote(p)]
  /\ Goto(p, "cs_emit")
  /\ UNCHANGED <<queue_entries, counters, maintenance, now, midnights,
                 published, session, result>>

\* QueueEvents.emitQueueCompleted, then the 200 response.
CsEmit(p) ==
  /\ pc[p] = "cs_emit"
  /\ LET q == local[p].queue
         serviceId == queue_entries[q].service_id
     IN  published' = published
           \cup emitQueueUpdate(serviceId, "queue_completed", q)
           \cup emitCounterUpdate(args[p].counterId, serviceId, "queue_completed", "open", q)
           \cup emitUserNotification(queue_entries[q].user_id, "queue_completed", q)
  /\ Respond(p, "Success", local[p].queue)
  /\ UNCHANGED <<tables, session>>


\* ---------------------------------------- cancelQueue handler, Queue.cancel
StartCancel(p, bound, queueId, userId) ==
  Begin(p, bound, [NoArgs EXCEPT !.op = "cancelQueue", !.queueId = queueId,
                                 !.userId = userId], "ca_select")

TerminalStatuses == {"completed", "cancelled"}

\* Mutant of CaSelect: the SELECT does not filter on user_id.
CaSelect_AnyUser(p) ==
  /\ pc[p] = "ca_select"
  /\ IF args[p].queueId \notin QueueIds
     THEN Respond(p, "NotFoundOrDenied", NULL)
     ELSE IF queue_entries[args[p].queueId].status \in TerminalStatuses
          THEN Respond(p, "CannotBeCancelled", NULL)
          ELSE /\ local' = [local EXCEPT ![p].rowCounterId =
                                      queue_entries[args[p].queueId].counter_id]
               /\ Goto(p, "ca_update")
               /\ UNCHANGED result
  /\ UNCHANGED <<tables, published, session>>

\* SELECT ... WHERE id = queueId AND user_id = userId, then the status check.
CaSelect(p) ==
  /\ pc[p] = "ca_select"
  /\ IF \/ args[p].queueId \notin QueueIds
        \/ queue_entries[args[p].queueId].user_id # args[p].userId
     THEN Respond(p, "NotFoundOrDenied", NULL)
     ELSE IF queue_entries[args[p].queueId].status \in TerminalStatuses
          THEN Respond(p, "CannotBeCancelled", NULL)
          ELSE /\ local' = [local EXCEPT ![p].rowCounterId =
                                      queue_entries[args[p].queueId].counter_id]
               /\ Goto(p, "ca_update")
               /\ UNCHANGED result
  /\ UNCHANGED <<tables, published, session>>

\* Mutant of CancelledRow: cancelled_at is not set.
CancelledRow_NoTimestamp(row) == [row EXCEPT !.status = "cancelled"]

\* UPDATE queue_entries SET status = 'cancelled', cancelled_at = NOW()
\* WHERE id = queueId.
CancelledRow(row) == [row EXCEPT !.status = "cancelled", !.cancelled_at = now]

CaUpdate(p) ==
  /\ pc[p] = "ca_update"
  /\ queue_entries' = [queue_entries EXCEPT ![args[p].queueId] = CancelledRow(@)]
  /\ local' = [local EXCEPT ![p] = [Wrote(p) EXCEPT !.queue = args[p].queueId]]
  /\ Goto(p, "ca_log")
  /\ UNCHANGED <<counters, queue_logs, maintenance, now, midnights, published,
                 session, result>>

CaLog(p) ==
  /\ pc[p] = "ca_log"
  /\ queue_logs' = Append(queue_logs,
        LogRow(args[p].queueId, queue_entries[args[p].queueId].service_id,
               local[p].rowCounterId, "cancelled"))
  /\ local' = [local EXCEPT ![p] = Wrote(p)]
  /\ Goto(p, "ca_emit")
  /\ UNCHANGED <<queue_entries, counters, maintenance, now, midnights,
                 published, session, result>>

\* QueueEvents.emitQueueCancelled, then the 200 response.
CaEmit(p) ==
  /\ pc[p] = "ca_emit"
  /\ published' = published
        \cup emitQueueUpdate(queue_entries[local[p].queue].service_id,
                             "queue_cancelled", local[p].queue)
  /\ Respond(p, "Success", local[p].queue)
  /\ UNCHANGED <<tables, session>>

\* -------------------------------------------- updateCounterStatus handler
StatusArgs == AllowedStatuses \cup {"paused"}

StartUpdateCounterStatus(p, bound, counterId, status) ==
  Begin(p, bound, [NoArgs EXCEPT !.op = "updateCounterStatus",
                                 !.counterId = counterId, !.status = status],
        "us_update")

\* Counter.updateStatus: rejects a status outside the allowed ones, else
\* runs the UPDATE; the handler answers success with whatever row came back.
UsUpdate(p) ==
  /\ pc[p] = "us_update"
  /\ IF args[p].status \notin AllowedStatuses
     THEN /\ Respond(p, "InvalidCounterStatus", NULL)
          /\ UNCHANGED counters
     ELSE /\ counters' = updateStatus(args[p].counterId, args[p].status)
          /\ pc' = [pc EXCEPT ![p] = "done"]
          /\ result' = [result EXCEPT ![p] = [kind |-> "Success", queueId |-> NULL,
                                              writes |-> 1]]
          /\ local' = [local EXCEPT ![p] = NoLocal]
  /\ UNCHANGED <<queue_entries, queue_logs, maintenance, now, midnights,
                 published, session>>

\* ---------------------------------------------------------- store failures
\* Positions whose query, when it throws, reaches the handler's catch block
\* (500, or the generic error of cancelQueue).
ThrowingPcs ==
  {"rq_existing", "gen_last", "calc_pos", "insert", "log_created",
   "cn_counter", "cn_next", "cn_update", "cn_setcur", "cn_status", "cn_log",
   "ss_queue", "ss_update", "ss_log",
   "cs_queue", "cs_update", "cs_setcur", "cs_status", "cs_log",
   "ca_select", "ca_update", "ca_log"}

StoreFault(p) ==
  /\ pc[p] \in ThrowingPcs
  /\ faults < MaxFaults
  /\ faults' = faults + 1
  /\ Respond(p, "InternalError", NULL)
  /\ UNCHANGED <<tables, published, args, nops>>

\* Positions of the QueueEvents emitters that query the store before they
\* publish; the emitter catches the error and publishes nothing.
QueryingEmitPcs == {"emit_created", "cn_emit", "cs_emit", "ca_emit"}

\* Mutant of EmitFault: the emitter's error reaches the handler's catch
\* block.
EmitFault_Propagates(p) ==
  /\ pc[p] \in QueryingEmitPcs
  /\ faults < MaxFaults
  /\ faults' = faults + 1
  /\ Respond(p, "InternalError", NULL)
  /\ UNCHANGED <<tables, published, args, nops>>

EmitFault(p) ==
  /\ pc[p] \in QueryingEmitPcs
  /\ faults < MaxFaults
  /\ faults' = faults + 1
  /\ Respond(p, "Success", local[p].queue)
  /\ UNCHANGED <<tables, published, args, nops>>

\* ------------------------------------------------------------ environment
\* The admin collaborator switches maintenance mode and saves the settings
\* row.
SetMaintenance(bound) ==
  /\ nops < bound
  /\ nops' = nops + 1
  /\ maintenance' = <<~getSystemSettings>>
  /\ UNCHANGED <<queue_entries, counters, queue_logs, published, now,
                 midnights, pc, args, local, result, faults>>

\* A calendar day ends.
Midnight(bound) ==
  /\ nops < bound
  /\ nops' = nops + 1
  /\ now' = now + 1
  /\ midnights' = midnights \cup {now + 1}
  /\ UNCHANGED <<queue_entries, counters, queue_logs, maintenance, published,
                 pc, args, local, result, faults>>

\* ------------------------------------------------------------------- Next
\* Ticket ids a request may name: the existing ones and one that resolves
\* to no row.
QueueArgs == 1..(Len(queue_entries) + 1)

\* A handler is invoked with arguments drawn from the given sets.
Start(p, bound, serviceArgs, counterArgs, queueArgs, statusArgs) ==
  \/ \E u \in Users, s \in serviceArgs : StartRequest(p, bound, u, s)
  \/ \E c \in counterArgs : StartCallNext(p, bound, c)
  \/ \E c \in counterArgs, q \in queueArgs : StartStartServing(p, bound, c, q)
  \/ \E c \in counterArgs, q \in queueArgs : StartCompleteService(p, bound, c, q)
  \/ \E q \in queueArgs, u \in Users : StartCancel(p, bound, q, u)
  \/ \E c \in counterArgs, st \in statusArgs :
       StartUpdateCounterStatus(p, bound, c, st)

\* Any arguments, resolving or not.
StartAny(p, bound) ==
  Start(p, bound, ServiceArgs, CounterArgs, QueueArgs, StatusArgs)

\* Arguments that resolve: the active service, existing counters and
\* tickets, allowed statuses.
StartResolving(p, bound) ==
  Start(p, bound, {1}, CounterIds, QueueIds, AllowedStatuses)

RequestSteps(p) ==
  \/ RqSettings(p) \/ RqExisting(p) \/ GenLast(p) \/ CalcPos(p)
  \/ Insert(p) \/ LogCreated(p) \/ EmitCreated(p)

CallNextSteps(p) ==
  \/ CnCounter(p) \/ CnNext(p) \/ CnUpdate(p) \/ CnSetCurrent(p)
  \/ CnStatus(p) \/ CnLog(p) \/ CnEmit(p)

StartServingSteps(p) ==
  \/ SsQueue(p) \/ SsUpdate(p) \/ SsLog(p) \/ SsEmit(p)

CompleteServiceSteps(p) ==
  \/ CsQueue(p) \/ CsUpdate(p) \/ CsSetCurrent(p)
  \/ CsStatus(p) \/ CsLog(p) \/ CsEmit(p)

CancelSteps(p) ==
  \/ CaSelect(p) \/ CaUpdate(p) \/ CaLog(p) \/ CaEmit(p)

Step(p) ==
  \/ RequestSteps(p) \/ CallNextSteps(p) \/ StartServingSteps(p)
  \/ CompleteServiceSteps(p) \/ CancelSteps(p) \/ UsUpdate(p)

\* A store call of the handler fails (timeout, lost connection).
FaultStep(p) == RqSettingsFault(p) \/ StoreFault(p) \/ EmitFault(p)

\* Concurrent handlers over a store that answers every call, invoked with
\* arguments that resolve: any slot may take its next step.
Next ==
  \/ \E p \in Procs : StartResolving(p, MaxOps) \/ Step(p)
  \/ SetMaintenance(MaxOps)

Spec == Init /\ [][Next]_vars

\* Serial handlers over a store that answers every call: one request slot,
\* so a handler runs to its response before the next one starts.
NextSeq ==
  \/ StartAny(1, MaxSeqOps) \/ Step(1)
  \/ SetMaintenance(MaxSeqOps)
  \/ Midnight(MaxSeqOps)

SpecSeq == Init /\ [][NextSeq]_vars

\* Serial handlers over a store whose calls may fail.
NextFault ==
  \/ StartAny(1, MaxFaultOps) \/ Step(1) \/ FaultStep(1)
  \/ SetMaintenance(MaxFaultOps)

SpecFault == Init /\ [][NextFault]_vars

\* Admission and calling only, serial (one request slot), over a store that
\* answers every call: three users request service 1, owners cancel their
\* tickets, counter 1 calls next.
OrderUsers == {1, 2, 3}

NextOrder ==
  \/ \E u \in OrderUsers : StartRequest(1, MaxOrderOps, u, 1)
  \/ StartCallNext(1, MaxOrderOps, 1)
  \/ \E q \in QueueIds : StartCancel(1, MaxOrderOps, q, queue_entries[q].user_id)
  \/ RequestSteps(1) \/ CallNextSteps(1) \/ CancelSteps(1)

SpecOrder == Init /\ [][NextOrder]_vars

\* Admission only, serial (one request slot), over a store that answers
\* every call, for services of every kind of configuration: a prefix taken
\* from the name or configured, blank, padded with spaces or holding a
\* dash, and an estimated_service_time of zero or more; Queue.
\* generateQueueNumber is also called on its own, with ids that resolve
\* and one that does not.
ConfiguredServices == {3, 4, 5, 6}

NextService ==
  \/ \E u \in Users, s \in ConfiguredServices :
       StartRequest(1, MaxServiceOps, u, s)
  \/ \E u \in Users, s \in {2, 7} : StartRequest(1, MaxServiceOps, u, s)
  \/ \E s \in ConfiguredServices \cup {7} : StartGenerate(1, MaxServiceOps, s)
  \/ \E q \in QueueIds : StartCancel(1, MaxServiceOps, q, queue_entries[q].user_id)
  \/ RequestSteps(1) \/ CancelSteps(1)
  \/ Midnight(MaxServiceOps)

SpecService == Init /\ [][NextService]_vars

\* The waiting line of service 1 over an unbounded run: requests are
\* admitted and counters keep calling next, with no limit on how many
\* tickets are created in all. To keep the states finite a ticket is
\* forgotten once it has been called, and request times are kept as ranks
\* (the order of the rows); neither changes the COUNT of waiting rows in
\* Queue.calculateQueuePosition or the ORDER BY of
\* Counter.getNextWaitingQueue. Queue numbers play no part in either and are
\* left blank.
LineUsers == {1, 2, 3, 4}

\* requestQueue of a user without an active ticket: Queue.create with the
\* position counted at that moment.
LineAdmit(userId) ==
  /\ Len(queue_entries) < MaxLine
  /\ findByUserAndService(userId, 1) = NULL
  /\ queue_entries' = Append(queue_entries,
        NewQueueEntry(userId, 1, <<>>, calculateQueuePosition(1),
                      EstimatedServiceTime(1)))
  /\ now' = now + 1
  /\ UNCHANGED <<counters, queue_logs, maintenance, midnights, published, pc,
                 args, local, result, nops, faults>>

\* The rows without row q, request times kept as ranks.
Forget(rows, q) ==
  [i \in 1..(Len(rows) - 1) |->
     [(IF i < q THEN rows[i] ELSE rows[i + 1]) EXCEPT !.requested_at = i]]

\* callNext of a counter of the service: the ticket getNextWaitingQueue
\* selects leaves the line.
LineCallNext ==
  /\ getNextWaitingQueue(1) # NULL
  /\ queue_entries' = Forget(queue_entries, getNextWaitingQueue(1))
  /\ now' = Len(queue_entries)
  /\ UNCHANGED <<counters, queue_logs, maintenance, midnights, published, pc,
                 args, local, result, nops, faults>>

NextLine == (\E u \in LineUsers : LineAdmit(u)) \/ LineCallNext

\* The counters keep calling next: a call that stays possible is made.
SpecLine == Init /\ [][NextLine]_vars /\ WF_vars(LineCallNext)

\* ================================================================= claims
Ticket(q) == queue_entries[q]

Done(p) == pc[p] = "done"

Succeeded(p) == Done(p) /\ result[p].kind = "Success"

Failed(p) == Done(p) /\ result[p].kind # "Success"

\* The ticket a callNext handler has claimed so far: the row it has updated,
\* or the one its response names.
Claimed(p) ==
  IF args[p].op # "callNext" THEN NULL
  ELSE IF Done(p) THEN result[p].queueId ELSE local[p].queue

\* C1: the queue_numbers of the tickets of one service requested on one day
\* are pairwise distinct, whatever the interleaving of the creations.
C1_UniqueQueueNumbers ==
  \A a, b \in QueueIds :
    (/\ a # b
     /\ Ticket(a).service_id = Ticket(b).service_id
     /\ DateOf(Ticket(a).requested_at) = DateOf(Ticket(b).requested_at))
    => Ticket(a).queue_number # Ticket(b).queue_number

\* C2: two concurrent callNext handlers never claim the same ticket: a
\* waiting ticket is updated by, and returned to, one of them only.
C2_SingleClaim ==
  \A p, q \in Procs :
    (p # q /\ Claimed(p) # NULL) => Claimed(p) # Claimed(q)

\* C3: no ticket is the current_serving_queue_id of two counters at once.
C3_NoDoubleServing ==
  \A c, d \in CounterIds :
    (c # d /\ counters[c].current_serving_queue_id # NULL)
    => counters[c].current_serving_queue_id # counters[d].current_serving_queue_id

\* C4: a completed or cancelled ticket never changes status again.
C4_TerminalImmutable ==
  [][\A q \in QueueIds :
       Ticket(q).status \in TerminalStatuses
       => queue_entries'[q].status = Ticket(q).status]_vars

\* C5: every (user, service) pair has at most one ticket in waiting, called
\* or serving status.
C5_SingleActiveTicket ==
  \A u \in Users, s \in ServiceIds : Cardinality(ActiveRows(u, s)) <= 1

\* C6: a requestQueue whose duplicate check runs while the user holds a
\* waiting, called or serving ticket of the service answers
\* DuplicateActiveTicket, having written no ticket and no log entry.
C6_DuplicateRejected ==
  [][\A p \in Procs :
       (/\ pc[p] = "rq_existing"
        /\ pc'[p] # "rq_existing"
        /\ ActiveRows(args[p].userId, args[p].serviceId) # {})
       => /\ pc'[p] = "done"
          /\ result'[p].kind = "DuplicateActiveTicket"
          /\ result'[p].writes = 0
          /\ queue_entries' = queue_entries
          /\ queue_logs' = queue_logs]_vars

\* C6 witness: a request was rejected as a duplicate of a ticket that had
\* already been called, and the user still holds exactly that one ticket.
C6_Witness ==
  \E p \in Procs :
    /\ Done(p)
    /\ args[p].op = "requestQueue"
    /\ result[p].kind = "DuplicateActiveTicket"
    /\ result[p].queueId \in QueueIds
    /\ Ticket(result[p].queueId).status = "called"
    /\ ActiveRows(args[p].userId, args[p].serviceId) = {result[p].queueId}

\* C7: callNext never moves a ticket to called while a ticket of the same
\* service that was admitted earlier is still waiting.
C7_FifoByAdmission ==
  [][\A t \in QueueIds :
       (Ticket(t).status = "waiting" /\ queue_entries'[t].status = "called")
       => ~\E e \in QueueIds :
             /\ Ticket(e).service_id = Ticket(t).service_id
             /\ Ticket(e).status = "waiting"
             /\ Ticket(e).requested_at < Ticket(t).requested_at]_vars

\* C8: the tickets successive callNext operations return for a service are
\* non-decreasing in (queue_position, requested_at): a ticket that is called
\* is not ordered before any ticket of the service called earlier.
C8_CallsNonDecreasing ==
  [][\A t \in QueueIds :
       (Ticket(t).status = "waiting" /\ queue_entries'[t].status = "called")
       => \A e \in QueueIds \ {t} :
             (/\ Ticket(e).service_id = Ticket(t).service_id
              /\ Ticket(e).called_at # NULL)
             => OrderedBefore(e, t)]_vars

\* C9: when cancel and callNext race on one waiting ticket, the handler
\* whose write comes second finds the ticket no longer waiting and leaves
\* the store as it is.
C9_LoserDetects ==
  [][\A p \in Procs :
       /\ (/\ pc[p] = "cn_update" /\ pc'[p] # "cn_update"
           /\ Ticket(local[p].nextQueue).status = "cancelled")
          => queue_entries' = queue_entries
       /\ (/\ pc[p] = "ca_update" /\ pc'[p] # "ca_update"
           /\ local[p].rowCounterId = NULL
           /\ Ticket(args[p].queueId).status = "called")
          => queue_entries' = queue_entries]_vars

\* C10: a handler that answers with a failure has applied no write to the
\* store.
C10_FailureLeavesNoMutation ==
  \A p \in Procs : Failed(p) => result[p].writes = 0

\* C11: a counter holds one ticket at a time: no two tickets in called or
\* serving status are assigned (counter_id) to the same counter.
C11_OneTicketPerCounter ==
  \A a, b \in QueueIds :
    (/\ a # b
     /\ Ticket(a).status \in {"called", "serving"}
     /\ Ticket(b).status \in {"called", "serving"}
     /\ Ticket(a).counter_id # NULL)
    => Ticket(a).counter_id # Ticket(b).counter_id

\* C12: startServing changes only a called ticket and completeService only
\* a serving one: run by the assigned counter on a ticket in another
\* non-terminal status, the handler leaves the ticket as it is.
C12_StartCompleteGuarded ==
  [][\A p \in Procs :
       /\ (/\ pc[p] = "ss_update" /\ pc'[p] # "ss_update"
           /\ Ticket(args[p].queueId).status \in ActiveStatuses \ {"called"})
          => queue_entries' = queue_entries
       /\ (/\ pc[p] = "cs_update" /\ pc'[p] # "cs_update"
           /\ Ticket(args[p].queueId).status \in ActiveStatuses \ {"serving"})
          => queue_entries' = queue_entries]_vars

\* C13: a ticket in serving status is never cancelled.
C13_ServingNotCancelled ==
  [][\A q \in QueueIds :
       Ticket(q).status = "serving"
       => queue_entries'[q].status # "cancelled"]_vars

\* C14: startServing and completeService run with a counter other than the
\* one the ticket is assigned to (a ticket with no counter included) answer
\* CounterMismatch when the counter exists, a failure in any case, and
\* change no ticket, counter or log entry.
C14_CounterMismatch ==
  [][\A p \in Procs :
       (/\ pc[p] \in {"ss_queue", "cs_queue"}
        /\ pc'[p] # pc[p]
        /\ args[p].queueId \in QueueIds
        /\ Ticket(args[p].queueId).counter_id # args[p].counterId)
       => /\ pc'[p] = "done"
          /\ result'[p].kind \in {"CounterMismatch", "CounterNotFound"}
          /\ args[p].counterId \in CounterIds
             => result'[p].kind = "CounterMismatch"
          /\ result'[p].writes = 0
          /\ queue_entries' = queue_entries
          /\ counters' = counters
          /\ queue_logs' = queue_logs]_vars

\* C14 witness: a counter's startServing or completeService on a ticket
\* that is called at another counter was answered CounterMismatch.
C14_Witness ==
  \E p \in Procs :
    /\ Done(p)
    /\ args[p].op \in {"startServing", "completeService"}
    /\ result[p].kind = "CounterMismatch"
    /\ args[p].queueId \in QueueIds
    /\ Ticket(args[p].queueId).status = "called"
    /\ Ticket(args[p].queueId).counter_id \in CounterIds \ {args[p].counterId}

\* C15: a cancel by a user who does not own the ticket fails, and leaves
\* every ticket (status and cancelled_at included), every counter and the
\* action log as they were.
C15_NonOwnerCancelFails ==
  [][\A p \in Procs :
       (/\ pc[p] = "ca_select"
        /\ pc'[p] # "ca_select"
        /\ args[p].queueId \in QueueIds
        /\ Ticket(args[p].queueId).user_id # args[p].userId)
       => /\ pc'[p] = "done"
          /\ result'[p].kind = "NotFoundOrDenied"
          /\ result'[p].writes = 0
          /\ queue_entries' = queue_entries
          /\ counters' = counters
          /\ queue_logs' = queue_logs]_vars

\* C15 witness: a cancel by another user was refused and the ticket, which
\* is called at a busy counter, is still not cancelled.
C15_Witness ==
  \E p \in Procs :
    /\ Done(p)
    /\ args[p].op = "cancelQueue"
    /\ result[p].kind = "NotFoundOrDenied"
    /\ args[p].queueId \in QueueIds
    /\ Ticket(args[p].queueId).user_id # args[p].userId
    /\ Ticket(args[p].queueId).status = "called"
    /\ Ticket(args[p].queueId).cancelled_at = NULL
    /\ counters[Ticket(args[p].queueId).counter_id].status = "busy"

ServiceHandlers == {"callNext", "startServing", "completeService", "cancelQueue"}

OutcomeWithoutFlag(p) ==
  LET c == args[p].counterId
      q == args[p].queueId
      unassigned ==
        IF c \notin CounterIds THEN "CounterNotFound"
        ELSE IF q \notin QueueIds THEN "QueueNotFound"
        ELSE IF Ticket(q).counter_id # c THEN "CounterMismatch"
        ELSE "none"
  IN  CASE pc[p] = "cn_counter" ->
             IF c \notin CounterIds THEN "CounterNotFound"
             ELSE IF counters[c].status = "closed" THEN "CounterClosed"
             ELSE "none"
        [] pc[p] = "cn_next" ->
             IF WaitingRows(counterService[c]) = {} THEN "NoWaitingQueues"
             ELSE "none"
        [] pc[p] \in {"ss_queue", "cs_queue"} -> unassigned
        [] pc[p] = "ca_select" ->
             IF q \notin QueueIds \/ Ticket(q).user_id # args[p].userId
             THEN "NotFoundOrDenied"
             ELSE IF Ticket(q).status \in TerminalStatuses
                  THEN "CannotBeCancelled"
                  ELSE "none"
        [] pc[p] \in {"cn_emit", "ss_emit", "cs_emit", "ca_emit"} -> "Success"
        [] OTHER -> "none"

\* The tickets and counters these handlers leave behind at each position, as
\* a function of the handler's arguments and reads and of the tickets and
\* counters alone.
EffectWithoutFlag(p) ==
  LET c == args[p].counterId
      q == args[p].queueId
  IN  CASE pc[p] = "cn_update" ->
             <<[queue_entries EXCEPT ![local[p].nextQueue] = CalledRow(@, c)],
               counters>>
        [] pc[p] = "cn_setcur" ->
             <<queue_entries, setCurrentServing(c, local[p].queue)>>
        [] pc[p] = "cn_status" -> <<queue_entries, updateStatus(c, "busy")>>
        [] pc[p] = "ss_update" ->
             <<[queue_entries EXCEPT ![q] = ServingRow(@)], counters>>
        [] pc[p] = "cs_update" ->
             <<[queue_entries EXCEPT ![q] = CompletedRow(@)], counters>>
        [] pc[p] = "cs_setcur" -> <<queue_entries, setCurrentServing(c, NULL)>>
        [] pc[p] = "cs_status" -> <<queue_entries, updateStatus(c, "open")>>
        [] pc[p] = "ca_update" ->
             <<[queue_entries EXCEPT ![q] = CancelledRow(@)], counters>>
        [] OTHER -> <<queue_entries, counters>>

\* C17: the maintenance flag plays no part in callNext, startServing,
\* completeService and cancel: every step of these handlers leaves the flag
\* alone, and answers (or goes on) and writes as the tickets and counters
\* alone decide, whether the flag is true or false.
C17_MaintenanceAdmissionsOnly ==
  [][\A p \in Procs :
       (args[p].op \in ServiceHandlers /\ pc[p] # "done" /\ pc'[p] # pc[p])
       => /\ maintenance' = maintenance
          /\ <<queue_entries', counters'>> = EffectWithoutFlag(p)
          /\ OutcomeWithoutFlag(p) = "none" => pc'[p] # "done"
          /\ OutcomeWithoutFlag(p) # "none"
             => /\ pc'[p] = "done"
                /\ result'[p].kind = OutcomeWithoutFlag(p)]_vars

\* C17 witness: in maintenance mode a counter called a waiting ticket and
\* was answered success.
C17_Witness ==
  \E p \in Procs :
    /\ getSystemSettings
    /\ Succeeded(p)
    /\ args[p].op = "callNext"
    /\ Ticket(result[p].queueId).status = "called"
    /\ counters[args[p].counterId].status = "busy"

\* C18: a successful callNext of counter c moves the waiting ticket of c's
\* service that is least in (queue_position, requested_at) to called with
\* counter_id c and changes no other ticket; when it answers, c is busy and
\* its current_serving_queue_id is that ticket.
C18_CallNextEffect ==
  [][\A p \in Procs :
       LET c == args[p].counterId
           t == local[p].nextQueue
       IN  /\ (pc[p] = "cn_update" /\ pc'[p] # "cn_update")
              => /\ Ticket(t).status = "waiting"
                 /\ Ticket(t).service_id = counterService[c]
                 /\ \A r \in WaitingRows(counterService[c]) : OrderedBefore(t, r)
                 /\ queue_entries'[t].status = "called"
                 /\ queue_entries'[t].counter_id = c
                 /\ \A q \in QueueIds \ {t} : queue_entries'[q] = Ticket(q)
           /\ (pc[p] = "cn_emit" /\ pc'[p] = "done")
              => /\ result'[p].kind = "Success"
                 /\ queue_entries' = queue_entries
                 /\ Ticket(result'[p].queueId).status = "called"
                 /\ Ticket(result'[p].queueId).counter_id = c
                 /\ counters'[c].current_serving_queue_id = result'[p].queueId
                 /\ counters'[c].status = "busy"]_vars

\* C18 witness: callNext succeeded with a ticket that was not the oldest
\* waiting one: a ticket admitted before it is still waiting.
C18_Witness ==
  \E p \in Procs :
    /\ Succeeded(p)
    /\ args[p].op = "callNext"
    /\ Ticket(result[p].queueId).status = "called"
    /\ counters[args[p].counterId].current_serving_queue_id = result[p].queueId
    /\ \E e \in QueueIds :
         /\ e < result[p].queueId
         /\ Ticket(e).status = "waiting"
         /\ Ticket(e).service_id = Ticket(result[p].queueId).service_id

\* C19: when completeService of the assigned counter has answered success,
\* the ticket is completed, the counter's current_serving_queue_id is NULL
\* and the counter's status is open; so it is after startServing and then
\* completeService on the counter's called ticket.
C19_StartThenComplete ==
  \A p \in Procs :
    (Succeeded(p) /\ args[p].op = "completeService")
    => /\ Ticket(args[p].queueId).status = "completed"
       /\ Ticket(args[p].queueId).completed_at # NULL
       /\ counters[args[p].counterId].current_serving_queue_id = NULL
       /\ counters[args[p].counterId].status = "open"

\* C19 witness: a ticket was called, started and completed by its counter.
C19_Witness ==
  \E p \in Procs :
    /\ Succeeded(p)
    /\ args[p].op = "completeService"
    /\ Ticket(args[p].queueId).called_at # NULL
    /\ Ticket(args[p].queueId).started_serving_at # NULL
    /\ Ticket(args[p].queueId).status = "completed"
    /\ Ticket(args[p].queueId).counter_id = args[p].counterId
    /\ counters[args[p].counterId].status = "open"

\* C20: a cancel of a waiting ticket by its owner sets that ticket's status
\* to cancelled and its cancelled_at, and nothing else of the ticket; no
\* step of the handler changes another ticket or any counter, and the log
\* only grows.
C20_CancelFrame ==
  [][\A p \in Procs :
       (args[p].op = "cancelQueue" /\ pc[p] # "done" /\ pc'[p] # pc[p])
       => /\ counters' = counters
          /\ \A q \in QueueIds \ {args[p].queueId} : queue_entries'[q] = Ticket(q)
          /\ Len(queue_logs') >= Len(queue_logs)
          /\ SubSeq(queue_logs', 1, Len(queue_logs)) = queue_logs
          /\ (pc[p] = "ca_update" /\ Ticket(args[p].queueId).status = "waiting")
             => /\ queue_entries'[args[p].queueId].cancelled_at # NULL
                /\ queue_entries'[args[p].queueId] =
                     [Ticket(args[p].queueId) EXCEPT
                        !.status = "cancelled",
                        !.cancelled_at = queue_entries'[args[p].queueId].cancelled_at]
          /\ pc[p] # "ca_update" => queue_entries' = queue_entries]_vars

\* C20 witness: the owner cancelled a waiting ticket while another ticket
\* was called at a busy counter, which still holds it.
C20_Witness ==
  \E p \in Procs :
    /\ Succeeded(p)
    /\ args[p].op = "cancelQueue"
    /\ Ticket(args[p].queueId).status = "cancelled"
    /\ Ticket(args[p].queueId).called_at = NULL
    /\ Ticket(args[p].queueId).cancelled_at # NULL
    /\ \E q \in QueueIds \ {args[p].queueId}, c \in CounterIds :
         /\ Ticket(q).status = "called"
         /\ Ticket(q).counter_id = c
         /\ counters[c].current_serving_queue_id = q
         /\ counters[c].status = "busy"

\* The numeric suffix of a queue number: the number spelled by the digits
\* after its last dash (0 when that field is not a number).
NumericSuffix(queueNumber) ==
  LET fields == Split(queueNumber)
      last == fields[Len(fields)]
  IN  IF last # <<>> /\ \A i \in 1..Len(last) : IsDigit(last[i])
      THEN ParseDigits(last, 0)
      ELSE 0

\* The highest numeric suffix among the service's tickets requested today
\* whose number has the prefix (0 when there are none).
HighestSuffix(serviceId) ==
  LET rows == LastNumberRows(serviceId, QueuePrefix(serviceId))
  IN  IF rows = {} THEN 0
      ELSE MaxOf({NumericSuffix(queue_entries[q].queue_number) : q \in rows})

\* C21: in every store state generateQueueNumber returns PREFIX-(m+1),
\* zero-padded to 3 digits, m being the highest numeric suffix among the
\* service's tickets of the day with that prefix.
C21_NextNumberIsMaxPlusOne ==
  \A s \in ServiceIds :
    generateQueueNumber(s) =
      QueuePrefix(s) \o <<"-">> \o PadStart3(StringOf(HighestSuffix(s) + 1))

Spaces(n) == [i \in 1..n |-> " "]

\* trimmed is str without its surrounding blanks.
IsTrimOf(trimmed, str) ==
  /\ trimmed = <<>> \/ (trimmed[1] # " " /\ trimmed[Len(trimmed)] # " ")
  /\ \E i, j \in 0..Len(str) : str = Spaces(i) \o trimmed \o Spaces(j)

\* upper is str with every lower-case letter replaced by its capital.
IsUpperCaseOf(upper, str) ==
  /\ Len(upper) = Len(str)
  /\ \A i \in 1..Len(str) :
       IF \E k \in 1..26 : LowerCaseLetters[k] = str[i]
       THEN \E k \in 1..26 : LowerCaseLetters[k] = str[i] /\ upper[i] = UpperCaseLetters[k]
       ELSE upper[i] = str[i]

\* The prefix the rule prescribes for a service row.
IsPrefixOf(prefix, serviceId) ==
  LET configured == services[serviceId].queue_prefix
      name == services[serviceId].name
  IN  IF ~configured.isNull /\ \E i \in 1..Len(configured.str) : configured.str[i] # " "
      THEN \E t \in {SubSeq(configured.str, a, b) : a, b \in 1..Len(configured.str)} :
             IsTrimOf(t, configured.str) /\ IsUpperCaseOf(prefix, t)
      ELSE \E n \in 0..3 :
             /\ n = Len(name) \/ (n = 3 /\ Len(name) > 3)
             /\ IsUpperCaseOf(prefix, SubSeq(name, 1, n))

\* The part of a queue number before "-NNN".
PrefixPart(queueNumber) == SubSeq(queueNumber, 1, Len(queueNumber) - 4)

\* C22: the prefix of a generated queue number is the service's configured
\* queue_prefix, trimmed and upper-cased, when one is present and non-blank,
\* and otherwise the first three characters of the service name, upper-cased.
C22_PrefixRule ==
  \A p \in Procs :
    local[p].queueNumber # <<>> =>
      IsPrefixOf(PrefixPart(local[p].queueNumber), args[p].serviceId)

\* A ticket of service 4 (queue_prefix " rx ") is numbered RX-001 and a
\* number was generated for service 5 (blank queue_prefix, name "IT").
C22_Witness ==
  /\ \E q \in QueueIds :
       /\ queue_entries[q].service_id = 4
       /\ queue_entries[q].queue_number = <<"R", "X", "-", "0", "0", "1">>
  /\ Succeeded(1)
  /\ args[1].op = "generateQueueNumber"
  /\ args[1].serviceId = 5
  /\ local[1].queueNumber = <<"I", "T", "-", "0", "0", "1">>

\* C23: a requestQueue naming a service that does not resolve (no row, or
\* inactive) writes no ticket and no log entry and ends ServiceNotFound;
\* generateQueueNumber on an id without a row ends 'Service not found'.
C23_UnresolvedService ==
  [][/\ (/\ args'[1].op = "requestQueue"
         /\ \/ args'[1].serviceId \notin ServiceIds
            \/ ~services[args'[1].serviceId].is_active) =>
          /\ UNCHANGED <<queue_entries, queue_logs>>
          /\ Done(1)' => result'[1].kind = "ServiceNotFound"
     /\ (/\ args'[1].op = "generateQueueNumber"
         /\ args'[1].serviceId \notin ServiceIds
         /\ Done(1)') => result'[1].kind = "Service not found"]_vars

\* A requestQueue for the inactive service 2 has been answered.
C23_Witness ==
  /\ Done(1)
  /\ args[1].op = "requestQueue"
  /\ args[1].serviceId = 2
  /\ result[1].kind = "ServiceNotFound"
  /\ queue_logs = <<>>

C25_WaitTimeIsTimeTimesPosition ==
  \A q \in QueueIds :
    queue_entries[q].estimated_wait_time =
      services[queue_entries[q].service_id].estimated_service_time
        * queue_entries[q].queue_position

\* C26: when the publishing of a transition fails, the rows the transition
\* wrote stay as written and the operation answers success.
C26_PublishFailureIsSwallowed ==
  [][(pc[1] \in QueryingEmitPcs /\ faults' = faults + 1) =>
       /\ UNCHANGED <<queue_entries, counters, queue_logs>>
       /\ pc'[1] = "done"
       /\ result'[1].kind = "Success"
       /\ result'[1].writes > 0]_vars

\* A callNext answered success and its ticket is called, yet nothing was
\* published about the call.
C26_Witness ==
  /\ Succeeded(1)
  /\ args[1].op = "callNext"
  /\ faults = 1
  /\ result[1].queueId # NULL
  /\ queue_entries[result[1].queueId].status = "called"
  /\ \A e \in published : e.type # "queue_called"

\* The action logged by the transition that puts a ticket in a status.
ActionOfStatus ==
  [waiting |-> "created", called |-> "called", serving |-> "started",
   completed |-> "completed", cancelled |-> "cancelled"]

Quiescent == \A p \in Procs : pc[p] \in {"idle", "done"}

\* C27: a ticket whose status changed always has the corresponding
\* queue_logs entry: once no handler is running, every ticket has an entry
\* carrying its id and the action that leads to its status.
C27_StatusChangeIsLogged ==
  Quiescent =>
    \A q \in QueueIds :
      \E i \in 1..Len(queue_logs) :
        /\ queue_logs[i].queue_entry_id = q
        /\ queue_logs[i].service_id = Ticket(q).service_id
        /\ queue_logs[i].action = ActionOfStatus[Ticket(q).status]

\* The type of the queue_update published for the transition that puts a
\* ticket in a status.
UpdateTypeOfStatus ==
  [waiting |-> "queue_created", called |-> "queue_called",
   serving |-> "queue_serving", completed |-> "queue_completed",
   cancelled |-> "queue_cancelled"]

\* C28: every committed ticket transition is followed by a queue_update
\* publish to the topic of the ticket's service: once no handler is
\* running, the transition that gave a ticket its status has been published.
C28_TransitionIsPublished ==
  Quiescent =>
    \A q \in QueueIds :
      Event("service", Ticket(q).service_id, "queue_update",
            UpdateTypeOfStatus[Ticket(q).status], NoStatus, q) \in published

\* The status a counter-status update announces for a ticket's transition.
CounterStatusOfStatus == [called |-> "busy", completed |-> "open"]

\* C29: when a ticket is called or completed, a personal notification is
\* published to the topic of the ticket's owner and of no other user, and a
\* counter-status update (busy when called, open when completed) is
\* published to the topics of the acting counter and of the service.
C29_CalledAndCompletedAreAnnounced ==
  Quiescent =>
    \A q \in QueueIds :
      Ticket(q).status \in {"called", "completed"} =>
        LET type == UpdateTypeOfStatus[Ticket(q).status]
            status == CounterStatusOfStatus[Ticket(q).status]
        IN  /\ Event("user", Ticket(q).user_id, "queue_called", type,
                     NoStatus, q) \in published
            /\ \A e \in published :
                 (e.topic = "user" /\ e.queue = q) => e.id = Ticket(q).user_id
            /\ Event("counter", Ticket(q).counter_id, "counter_update", type,
                     status, q) \in published
            /\ Event("service", Ticket(q).service_id, "counter_update", type,
                     status, q) \in published

\* C30: setting a counter's status to a value outside open, busy, closed,
\* break fails with InvalidCounterStatus and leaves every counter as it
\* was; a value inside the set becomes the counter's status.
C30_CounterStatusValidated ==
  [][(pc[1] = "us_update" /\ pc'[1] = "done") =>
       IF args[1].status \notin {"open", "busy", "closed", "break"}
       THEN /\ result'[1].kind = "InvalidCounterStatus"
            /\ counters' = counters
       ELSE /\ result'[1].kind = "Success"
            /\ args[1].counterId \in CounterIds =>
                 /\ counters'[args[1].counterId].status = args[1].status
                 /\ counters'[args[1].counterId].current_serving_queue_id =
                      counters[args[1].counterId].current_serving_queue_id]_vars

\* A busy counter holding a ticket was asked for status 'paused': the
\* request failed and the counter is still busy with its ticket.
C30_Witness ==
  /\ Done(1)
  /\ args[1].op = "updateCounterStatus"
  /\ args[1].status = "paused"
  /\ result[1].kind = "InvalidCounterStatus"
  /\ args[1].counterId \in CounterIds
  /\ counters[args[1].counterId].status = "busy"
  /\ counters[args[1].counterId].current_serving_queue_id # NULL

\* C31: a callNext that finds its counter closed fails there: it changes no
\* ticket, no counter and no log entry and publishes nothing, whether or not
\* tickets are waiting for the counter's service.
C31_ClosedCounterRejectsCall ==
  [][\A p \in Procs :
       (/\ pc[p] = "cn_counter"
        /\ pc'[p] # "cn_counter"
        /\ args[p].counterId \in CounterIds
        /\ counters[args[p].counterId].status = "closed")
       => /\ pc'[p] = "done"
          /\ result'[p].kind = "CounterClosed"
          /\ result'[p].writes = 0
          /\ UNCHANGED <<queue_entries, counters, queue_logs, published>>]_vars

\* A callNext on the closed counter 1 was refused while a ticket waits for
\* the counter's service.
C31_Witness ==
  \E p \in Procs :
    /\ Done(p)
    /\ args[p].op = "callNext"
    /\ args[p].counterId = 1
    /\ result[p].kind = "CounterClosed"
    /\ counters[1].status = "closed"
    /\ \E q \in QueueIds : /\ Ticket(q).status = "waiting"
                           /\ Ticket(q).service_id = counterService[1]

\* The operation of slot p names a counter or a ticket that has no row.
NamesUnresolvedId(p) ==
  \/ /\ args[p].op \in {"callNext", "startServing", "completeService",
                        "updateCounterStatus"}
     /\ args[p].counterId \notin CounterIds
  \/ /\ args[p].op \in {"startServing", "completeService", "cancelQueue"}
     /\ args[p].queueId \notin QueueIds

NotFoundKinds == {"CounterNotFound", "QueueNotFound", "NotFoundOrDenied"}

\* C32: an operation that names a counter id or ticket id without a row
\* (and, for updateCounterStatus, a status of the allowed set) ends with a
\* not-found failure.
C32_UnresolvedIdFails ==
  \A p \in Procs :
    (/\ Done(p)
     /\ NamesUnresolvedId(p)
     /\ args[p].op = "updateCounterStatus" =>
          args[p].status \in {"open", "busy", "closed", "break"})
    => result[p].kind \in NotFoundKinds

\* C33: once a ticket exists, no step of any operation changes its
\* queue_number, queue_position or estimated_wait_time.
C33_AdmissionFieldsFrozen ==
  [][\A q \in QueueIds :
       /\ queue_entries'[q].queue_number = queue_entries[q].queue_number
       /\ queue_entries'[q].queue_position = queue_entries[q].queue_position
       /\ queue_entries'[q].estimated_wait_time =
            queue_entries[q].estimated_wait_time]_vars

\* Ticket 1 went from creation to completed while a second ticket was
\* created, and still carries the number, position and estimate it got.
C33_Witness ==
  /\ Len(queue_entries) >= 2
  /\ Ticket(1).status = "completed"
  /\ Ticket(1).queue_number = <<"R", "E", "G", "-", "0", "0", "1">>
  /\ Ticket(1).queue_position = 1
  /\ Ticket(1).estimated_wait_time = 5

\* The status write an event reports has been applied to its ticket: the
\* ticket exists and the timestamp of that transition is set.
WriteApplied(e) ==
  /\ e.queue \in QueueIds
  /\ CASE e.type = "queue_created" -> TRUE
       [] e.type = "queue_called" -> Ticket(e.queue).called_at # NULL
       [] e.type \in {"queue_serving", "serving_started"} ->
            Ticket(e.queue).started_serving_at # NULL
       [] e.type = "queue_completed" -> Ticket(e.queue).completed_at # NULL
       [] e.type = "queue_cancelled" -> Ticket(e.queue).cancelled_at # NULL
       [] OTHER -> FALSE

GuardRejections ==
  {"SystemUnavailable", "ServiceNotFound", "DuplicateActiveTicket",
   "CounterNotFound", "CounterClosed", "NoWaitingQueues", "QueueNotFound",
   "CounterMismatch", "NotFoundOrDenied", "CannotBeCancelled",
   "InvalidCounterStatus"}

\* C34: an event is published only when the status write it reports has
\* already been applied, and only by the step in which a handler answers
\* success; a handler that ends in a rejection by one of its guards has
\* published nothing.
C34_PublishFollowsWrite ==
  [][/\ \A e \in published' \ published : WriteApplied(e)
     /\ published' # published =>
          \E p \in Procs : /\ pc[p] # "done"
                           /\ Succeeded(p)'
                           /\ local[p].writes > 0
     /\ \A p \in Procs :
          (pc[p] # "done" /\ Done(p)' /\ result'[p].kind \in GuardRejections)
          => /\ published' = published
             /\ local[p].writes = 0]_vars

\* A completeService was rejected for a counter mismatch after the call of
\* ticket 1 had been published.
C34_Witness ==
  /\ Done(1)
  /\ result[1].kind = "CounterMismatch"
  /\ \E e \in published : e.type = "queue_called" /\ e.queue = 1
  /\ Ticket(1).called_at # NULL

\* C35: once no handler is running, a counter's non-null
\* current_serving_queue_id names a ticket that is called or serving and is
\* assigned to that counter.
C35_CurrentServingIsActive ==
  Quiescent =>
    \A c \in CounterIds :
      counters[c].current_serving_queue_id # NULL =>
        /\ counters[c].current_serving_queue_id \in QueueIds
        /\ Ticket(counters[c].current_serving_queue_id).status
             \in {"called", "serving"}
        /\ Ticket(counters[c].current_serving_queue_id).counter_id = c

\* C36: once no handler is running, every ticket in called or serving
\* status is the current_serving_queue_id of the counter named in its
\* counter_id.
C36_ActiveTicketIsCurrent ==
  Quiescent =>
    \A q \in QueueIds :
      Ticket(q).status \in {"called", "serving"} =>
        /\ Ticket(q).counter_id \in CounterIds
        /\ counters[Ticket(q).counter_id].current_serving_queue_id = q

\* C37: once no handler is running, a counter's status is busy exactly when
\* its current_serving_queue_id is non-null.
C37_BusyIffServing ==
  Quiescent =>
    \A c \in CounterIds :
      counters[c].status = "busy" <=> counters[c].current_serving_queue_id # NULL

InLine(userId) ==
  \E q \in QueueIds : /\ Ticket(q).user_id = userId
                      /\ Ticket(q).status = "waiting"

\* C38: while the counters keep calling next, every waiting ticket is
\* eventually called, also when new tickets keep being admitted.
C38_NoStarvation ==
  \A u \in LineUsers : InLine(u) ~> ~InLine(u)

\* C39: a requestQueue whose settings read fails, or finds no settings row,
\* takes maintenance mode as off, whatever the stored flag: the step is not
\* answered with an error of the settings store; the request goes on to the
\* duplicate check, or is answered ServiceNotFound when its service does not
\* resolve, and nothing is written by the step.
C39_SettingsFailureAdmits ==
  [][\A p \in Procs :
       (/\ pc[p] = "rq_settings"
        /\ pc'[p] # "rq_settings"
        /\ (faults' # faults \/ maintenance = <<>>))
       => /\ tables' = tables
          /\ published' = published
          /\ IF ServiceResolves(args[p].serviceId)
             THEN pc'[p] = "rq_existing"
             ELSE /\ pc'[p] = "done"
                  /\ result'[p].kind = "ServiceNotFound"]_vars

\* C39 witness: in maintenance mode the one request of the behaviour, whose
\* settings read failed, was admitted: its ticket waits and its event is
\* published.
C39_Witness ==
  /\ faults = 1
  /\ nops = 2
  /\ getSystemSettings
  /\ Succeeded(1)
  /\ args[1].op = "requestQueue"
  /\ Len(queue_entries) = 1
  /\ queue_entries[1].status = "waiting"
  /\ published # {}

\* C40: the timestamps and the counter of every ticket match its status: a
\* waiting ticket has no counter_id and no called_at; a called, serving or
\* completed ticket has counter_id and called_at; a serving or completed
\* ticket has started_serving_at; a completed ticket has completed_at; a
\* cancelled ticket has cancelled_at and no completed_at.
C40_TimestampsMatchStatus ==
  \A q \in QueueIds :
    LET t == Ticket(q) IN
      /\ t.status = "waiting"
         => t.counter_id = NULL /\ t.called_at = NULL
      /\ t.status \in {"called", "serving", "completed"}
         => t.counter_id # NULL /\ t.called_at # NULL
      /\ t.status \in {"serving", "completed"}
         => t.started_serving_at # NULL
      /\ t.status = "completed" => t.completed_at # NULL
      /\ t.status = "cancelled"
         => t.cancelled_at # NULL /\ t.completed_at = NULL

====
